---- MODULE Spec2Model ----
(***************************************************************************)
(* A model of estafette-k8s-hpa-scaler (main.go and the Prometheus query   *)
(* response helpers): the poll worker that lists the                        *)
(* HorizontalPodAutoscalers, resolves the desired state of each from its   *)
(* annotations, computes the target minReplicas and updates the object,    *)
(* and the main goroutine that waits for a termination signal.             *)
(*                                                                         *)
(* float64 values are modelled as exact rationals [n, d] (d > 0) plus a    *)
(* NaN flag; int32 values are modelled as the integers of                  *)
(* MinInt32..MaxInt32 with wrap-around on increment.                       *)
(***************************************************************************)
EXTENDS Integers, Sequences, FiniteSets, TLC

VARIABLES
    cluster,        \* the HorizontalPodAutoscaler objects held by the API server
    lowerBoundEnv,  \* the MINIMUM_REPLICAS_LOWER_BOUND environment variable
    pc,             \* position of the poll worker goroutine
    hpas,           \* hpas.Items of the pass in flight
    idx,            \* index of the loop over hpas.Items
    replicaSets,    \* the replicaSetsHolder of the pass in flight
    rsListCalls,    \* number of ListReplicaSets calls issued in the pass in flight
    waitGroup,      \* counter of the sync.WaitGroup
    mainState,      \* position of the main goroutine
    trace,          \* per autoscaler: what its processing did in the pass in flight
    lastWrite,      \* per autoscaler: the inputs and target of its last successful update
    listErr,        \* whether ListHorizontalPodAutoscalers failed in the pass in flight
    sleepTime,      \* the sleepTime of the last pass, 0 while a pass is in flight
    lastFailure     \* history, kept by SpecRetry only: per autoscaler, the inputs
                    \* and target of its update when that failed in the last pass

vars == <<cluster, lowerBoundEnv, pc, hpas, idx, replicaSets, rsListCalls,
          waitGroup, mainState, trace, lastWrite, listErr, sleepTime, lastFailure>>

----------------------------------------------------------------------------
(* int32 *)

MaxInt32 == 2147483647

MinInt32 == -MaxInt32 - 1

\* x + int32(1) on int32 operands: Go wraps around on overflow
Int32Inc(x) == IF x = MaxInt32 THEN MinInt32 ELSE x + 1

(* float64, as exact rationals *)

Rat(n, d) == [nan |-> FALSE, n |-> n, d |-> d]

NaN == [nan |-> TRUE, n |-> 0, d |-> 1]

\* x > 0 on float64: false for NaN
RatPositive(x) == ~x.nan /\ x.n > 0

\* a + b / c, for c > 0
RatAddDiv(a, b, c) == Rat(a.n * b.d * c.n + b.n * c.d * a.d, a.d * b.d * c.n)

\* float64(k) * x
RatScale(k, x) == Rat(k * x.n, x.d)

\* math.Ceil, on a value whose ceiling is an int32
Ceil(x) == -((-x.n) \div x.d)

\* math.Floor, on a value whose floor is an int32
Floor(x) == x.n \div x.d

----------------------------------------------------------------------------
(* Annotations *)

annotationHPAScaler == "estafette.io/hpa-scaler"
annotationHPAScalerPrometheusQuery == "estafette.io/hpa-scaler-prometheus-query"
annotationHPAScalerRequestsPerReplica == "estafette.io/hpa-scaler-requests-per-replica"
annotationHPAScalerDelta == "estafette.io/hpa-scaler-delta"
annotationHPAScalerPrometheusServerURL == "estafette.io/hpa-scaler-prometheus-server-url"
annotationHPAScalerScaleDownMaxRatio == "estafette.io/hpa-scaler-scale-down-max-ratio"
annotationHPAScalerEnableScaleDownRatioDeploymentChecking ==
    "estafette.io/hpa-scaler-enable-scale-down-ratio-deployment-checking"

\* os.Getenv("PROMETHEUS_SERVER_URL"): main refuses to start when it is empty
PrometheusServerURLEnv == "http://prometheus.monitoring.svc"

\* strconv.ParseFloat(s, 64) on the strings the model uses as annotation and
\* query result values; every other string is a syntax error
ParseFloat(s) ==
    CASE s = "0"          -> [ok |-> TRUE, val |-> Rat(0, 1)]
      [] s = "1"          -> [ok |-> TRUE, val |-> Rat(1, 1)]
      [] s = "2"          -> [ok |-> TRUE, val |-> Rat(2, 1)]
      [] s = "3"          -> [ok |-> TRUE, val |-> Rat(3, 1)]
      [] s = "7"          -> [ok |-> TRUE, val |-> Rat(7, 1)]
      [] s = "-1"         -> [ok |-> TRUE, val |-> Rat(-1, 1)]
      [] s = "-4"         -> [ok |-> TRUE, val |-> Rat(-4, 1)]
      [] s = "2.5"        -> [ok |-> TRUE, val |-> Rat(5, 2)]
      [] s = "-0.5"       -> [ok |-> TRUE, val |-> Rat(-1, 2)]
      [] s = "0.5"        -> [ok |-> TRUE, val |-> Rat(1, 2)]
      [] s = "0.2"        -> [ok |-> TRUE, val |-> Rat(1, 5)]
      [] s = "0.01"       -> [ok |-> TRUE, val |-> Rat(1, 100)]
      [] s = "0.34"       -> [ok |-> TRUE, val |-> Rat(17, 50)]
      [] s = "7.5"        -> [ok |-> TRUE, val |-> Rat(15, 2)]
      [] s = "10.25"      -> [ok |-> TRUE, val |-> Rat(41, 4)]
      [] s = "225.4068"   -> [ok |-> TRUE, val |-> Rat(563517, 2500)]
      [] s = "2147483647" -> [ok |-> TRUE, val |-> Rat(MaxInt32, 1)]
      [] s = "NaN"        -> [ok |-> TRUE, val |-> NaN]
      [] OTHER            -> [ok |-> FALSE, val |-> Rat(0, 1)]

\* strconv.ParseInt(s, 0, 32) on the strings the model uses for
\* MINIMUM_REPLICAS_LOWER_BOUND; the empty (unset) variable, a non-number and a
\* value out of the int32 range are errors
ParseInt32(s) ==
    CASE s = "0"          -> [ok |-> TRUE, val |-> 0]
      [] s = "1"          -> [ok |-> TRUE, val |-> 1]
      [] s = "3"          -> [ok |-> TRUE, val |-> 3]
      [] s = "5"          -> [ok |-> TRUE, val |-> 5]
      [] s = "-2"         -> [ok |-> TRUE, val |-> -2]
      [] s = "0x10"       -> [ok |-> TRUE, val |-> 16]
      [] s = "2147483647" -> [ok |-> TRUE, val |-> MaxInt32]
      [] OTHER            -> [ok |-> FALSE, val |-> 0]

\* annotations[key], ok
Lookup(annotations, key) ==
    IF key \in DOMAIN annotations
        THEN [ok |-> TRUE, val |-> annotations[key]]
        ELSE [ok |-> FALSE, val |-> ""]

\* mutant: the else branch of the parse is forgotten, leaving the zero value
FloatAnnotationZeroOnError(annotations, key, default) ==
    LET a == Lookup(annotations, key)
    IN  IF ~a.ok THEN default
        ELSE IF ParseFloat(a.val).ok THEN ParseFloat(a.val).val ELSE Rat(0, 1)

\* the pattern of lines 223-233: absent or unparseable gives the default
FloatAnnotation(annotations, key, default) ==
    LET a == Lookup(annotations, key)
    IN  IF ~a.ok THEN default
        ELSE IF ParseFloat(a.val).ok THEN ParseFloat(a.val).val ELSE default

getDesiredHorizontalPodAutoscalerState(annotations) ==
    [ Enabled |->
        IF Lookup(annotations, annotationHPAScaler).ok
            THEN Lookup(annotations, annotationHPAScaler).val ELSE "false",
      PrometheusQuery |->
        IF Lookup(annotations, annotationHPAScalerPrometheusQuery).ok
            THEN Lookup(annotations, annotationHPAScalerPrometheusQuery).val ELSE "",
      RequestsPerReplica |->
        FloatAnnotation(annotations, annotationHPAScalerRequestsPerReplica, Rat(1, 1)),
      Delta |->
        FloatAnnotation(annotations, annotationHPAScalerDelta, Rat(0, 1)),
      LastUpdated |-> "",
      PrometheusServerURL |->
        IF Lookup(annotations, annotationHPAScalerPrometheusServerURL).ok
            THEN Lookup(annotations, annotationHPAScalerPrometheusServerURL).val
            ELSE PrometheusServerURLEnv,
      ScaleDownMaxRatio |->
        FloatAnnotation(annotations, annotationHPAScalerScaleDownMaxRatio, Rat(1, 1)),
      EnableScaleDownRatioDeploymentChecking |->
        IF Lookup(annotations, annotationHPAScalerEnableScaleDownRatioDeploymentChecking).ok
            THEN Lookup(annotations,
                        annotationHPAScalerEnableScaleDownRatioDeploymentChecking).val
            ELSE "false" ]

----------------------------------------------------------------------------
(* The calculation of the target minReplicas *)

\* lines 279-283: the configured lower bound, 3 when unset or unparseable
MinimumReplicasLowerBound(env) ==
    IF ParseInt32(env).ok THEN ParseInt32(env).val ELSE 3

\* line 385: whether the Prometheus query is executed at all
QueryEnabled(desiredState) ==
    /\ desiredState.PrometheusQuery # ""
    /\ RatPositive(desiredState.RequestsPerReplica)

\* mutant: math.Floor in place of math.Ceil
MetricMinPodCountFloor(desiredState, requestRate) ==
    Floor(RatAddDiv(desiredState.Delta, requestRate, desiredState.RequestsPerReplica))

\* line 416, for a delta and a request rate that are numbers
MetricMinPodCount(desiredState, requestRate) ==
    Ceil(RatAddDiv(desiredState.Delta, requestRate, desiredState.RequestsPerReplica))

\* GetRequestRate on a decoded response: the string result[0].value[1] as a
\* float64; indexing an empty result panics
GetRequestRate(response) ==
    IF response.kind = "emptyResult"
        THEN [panic |-> TRUE, ok |-> FALSE, val |-> Rat(0, 1)]
        ELSE [panic |-> FALSE, ok |-> ParseFloat(response.value).ok,
              val |-> ParseFloat(response.value).val]

\* mutant: a failure of the query is taken for a request rate of 0
getMinPodCountIgnoringErrors(desiredState, response) ==
    IF QueryEnabled(desiredState) /\ response.kind = "value"
                                 /\ ParseFloat(response.value).ok
        THEN [queried |-> TRUE, panic |-> FALSE, err |-> FALSE,
              minPodCount |-> MetricMinPodCount(desiredState, ParseFloat(response.value).val),
              requestRate |-> ParseFloat(response.value).val]
        ELSE [queried |-> QueryEnabled(desiredState), panic |-> FALSE, err |-> FALSE,
              minPodCount |-> 0, requestRate |-> Rat(0, 1)]

\* the Prometheus call, the read of the body and the decoding of the envelope
\* can each fail; response is what the query endpoint does for this call
getMinPodCountBasedOnPrometheusQuery(desiredState, response) ==
    IF ~QueryEnabled(desiredState)
        THEN [queried |-> FALSE, panic |-> FALSE, err |-> FALSE,
              minPodCount |-> 0, requestRate |-> Rat(0, 1)]
    ELSE IF response.kind \in {"transportError", "readError", "invalidJSON"}
        THEN [queried |-> TRUE, panic |-> FALSE, err |-> TRUE,
              minPodCount |-> 0, requestRate |-> Rat(0, 1)]
    ELSE IF GetRequestRate(response).panic
        THEN [queried |-> TRUE, panic |-> TRUE, err |-> FALSE,
              minPodCount |-> 0, requestRate |-> Rat(0, 1)]
    ELSE IF ~GetRequestRate(response).ok
        THEN [queried |-> TRUE, panic |-> FALSE, err |-> TRUE,
              minPodCount |-> 0, requestRate |-> Rat(0, 1)]
    ELSE [queried |-> TRUE, panic |-> FALSE, err |-> FALSE,
          minPodCount |-> MetricMinPodCount(desiredState, GetRequestRate(response).val),
          requestRate |-> GetRequestRate(response).val]

\* mutant: without the special case of a scale down of zero
getMinPodCountWithoutZeroCase(actualNumberOfReplicas, desiredState) ==
    actualNumberOfReplicas
        - Floor(RatScale(actualNumberOfReplicas, desiredState.ScaleDownMaxRatio))

\* mutant: the ratio is the part of the replicas that remains
getMinPodCountRemaining(actualNumberOfReplicas, desiredState) ==
    Floor(RatScale(actualNumberOfReplicas, desiredState.ScaleDownMaxRatio))

getMinPodCountBasedOnCurrentPodCount(actualNumberOfReplicas, desiredState) ==
    LET maxScaleDown == Floor(RatScale(actualNumberOfReplicas, desiredState.ScaleDownMaxRatio))
    IN  IF maxScaleDown = 0
            THEN actualNumberOfReplicas - 1
            ELSE actualNumberOfReplicas - maxScaleDown

\* mutant: the replica sets are not filtered by the app label
isDeploymentInProgressAnyApp(app, replicaSetList) ==
    Cardinality({i \in DOMAIN replicaSetList : replicaSetList[i].replicas > 0}) > 1

\* lines 445-461 on a fetched list: more than one non-empty replica set of the app
isDeploymentInProgress(app, replicaSetList) ==
    LET replicaSetsForApp ==
            {i \in DOMAIN replicaSetList : replicaSetList[i].app = app}
        nonEmptyReplicaSetCount ==
            Cardinality({i \in replicaSetsForApp : replicaSetList[i].replicas > 0})
    IN  nonEmptyReplicaSetCount > 1

\* mutant: the comparison is reversed, the smaller minimum is picked
SmallerMinimum(minPodCountBasedOnPrometheusQuery, minPodCountBasedOnCurrentPodCount) ==
    IF minPodCountBasedOnCurrentPodCount < minPodCountBasedOnPrometheusQuery
        THEN minPodCountBasedOnCurrentPodCount
        ELSE minPodCountBasedOnPrometheusQuery

\* lines 319-322
LargerMinimum(minPodCountBasedOnPrometheusQuery, minPodCountBasedOnCurrentPodCount) ==
    IF minPodCountBasedOnCurrentPodCount > minPodCountBasedOnPrometheusQuery
        THEN minPodCountBasedOnCurrentPodCount
        ELSE minPodCountBasedOnPrometheusQuery

\* mutant: the comparison is reversed, the lower bound becomes an upper bound
ApplyUpperBound(targetNumberOfMinReplicas, minimumReplicasLowerBound) ==
    IF targetNumberOfMinReplicas > minimumReplicasLowerBound
        THEN minimumReplicasLowerBound
        ELSE targetNumberOfMinReplicas

\* lines 325-327
ApplyLowerBound(targetNumberOfMinReplicas, minimumReplicasLowerBound) ==
    IF targetNumberOfMinReplicas < minimumReplicasLowerBound
        THEN minimumReplicasLowerBound
        ELSE targetNumberOfMinReplicas

\* lines 355-358
TargetMaxReplicas(minReplicas, maxReplicas) ==
    IF minReplicas >= maxReplicas THEN Int32Inc(minReplicas) ELSE maxReplicas

\* mutant: the serialization of the state never fails
MarshalNeverFails(desiredState) == FALSE

\* json.Marshal(desiredState) fails on a NaN field
MarshalFails(desiredState) ==
    \/ desiredState.RequestsPerReplica.nan
    \/ desiredState.Delta.nan
    \/ desiredState.ScaleDownMaxRatio.nan

\* mutant: the update carries the state annotation as its only annotation
UpdatedObjectWithStateOnly(hpa, desiredState, targetNumberOfMinReplicas) ==
    [hpa EXCEPT
        !.annotations = <<>>,
        !.stateAnnotation = <<[desiredState EXCEPT !.LastUpdated = "now"]>>,
        !.minReplicas = targetNumberOfMinReplicas,
        !.maxReplicas = TargetMaxReplicas(targetNumberOfMinReplicas, hpa.maxReplicas)]

\* lines 346-358: the object handed to UpdateHorizontalPodAutoscaler
UpdatedObject(hpa, desiredState, targetNumberOfMinReplicas) ==
    [hpa EXCEPT
        !.stateAnnotation = <<[desiredState EXCEPT !.LastUpdated = "now"]>>,
        !.minReplicas = targetNumberOfMinReplicas,
        !.maxReplicas = TargetMaxReplicas(targetNumberOfMinReplicas, hpa.maxReplicas)]

----------------------------------------------------------------------------
(* Processing one autoscaler *)

\* the nil replicaSetList of a fresh replicaSetsHolder
NilHolder == [fetched |-> FALSE, list |-> <<>>]

\* What the processing of one autoscaler did: the returned status and error,
\* the calls it issued and the values it computed.
NoEffect(hpa, holder) ==
    [ status |-> "skipped", err |-> FALSE, panic |-> FALSE,
      queried |-> FALSE, rsListCalls |-> 0, holder |-> holder,
      updateIssued |-> FALSE, stored |-> FALSE, submitted |-> hpa,
      enabled |-> FALSE, computed |-> FALSE, lowerBound |-> 0,
      requestRate |-> Rat(0, 1), deploymentInProgress |-> FALSE,
      minPodCountBasedOnPrometheusQuery |-> 0,
      minPodCountBasedOnCurrentPodCount |-> 0,
      target |-> 0 ]

\* mutant: the list is fetched for every autoscaler that asks for it
FetchReplicaSetsAlways(holder, rs) ==
    IF rs.ok
        THEN [calls |-> 1, panic |-> FALSE,
              holder |-> [fetched |-> TRUE, list |-> rs.list]]
        ELSE [calls |-> 1, panic |-> TRUE, holder |-> holder]

\* lines 438-443 and getReplicaSets: the list is fetched when the holder is
\* nil; the client returns a nil list together with an error, and
\* len(replicaSets.Items) at line 473 then dereferences it
FetchReplicaSets(holder, rs) ==
    IF holder.fetched
        THEN [calls |-> 0, panic |-> FALSE, holder |-> holder]
    ELSE IF rs.ok
        THEN [calls |-> 1, panic |-> FALSE,
              holder |-> [fetched |-> TRUE, list |-> rs.list]]
    ELSE [calls |-> 1, panic |-> TRUE, holder |-> holder]

\* mutant: any non-empty value of the annotation enables the scaler
IsEnabledWhenNotEmpty(desiredState) == desiredState.Enabled # ""

\* line 278
IsEnabled(desiredState) == desiredState.Enabled = "true"

\* mutant: the deployment check runs for every enabled autoscaler
DeploymentCheckingAlways(desiredState) == TRUE

\* line 295
DeploymentCheckingEnabled(desiredState) ==
    desiredState.EnableScaleDownRatioDeploymentChecking = "true"

\* mutant: the status does not depend on the outcome of the update
UpdateStatusSucceeded(updateOk) == "succeeded"

\* lines 361-367: the status after UpdateHorizontalPodAutoscaler
UpdateStatus(updateOk) == IF updateOk THEN "succeeded" ELSE "failed"

\* mutant: the pod count based minimum is computed during a deployment too
CurrentPodCountMinimumAlways(deploymentInProgress, minPodCount, hpa, desiredState) ==
    getMinPodCountBasedOnCurrentPodCount(hpa.currentReplicas, desiredState)

\* lines 291 and 300-302: the pod count based minimum is the Prometheus based
\* one while a deployment is in progress
CurrentPodCountMinimum(deploymentInProgress, minPodCount, hpa, desiredState) ==
    IF ~deploymentInProgress
        THEN getMinPodCountBasedOnCurrentPodCount(hpa.currentReplicas, desiredState)
        ELSE minPodCount

\* mutant: the target is compared with the actual number of replicas
TargetEqualsActualReplicas(targetNumberOfMinReplicas, hpa) ==
    targetNumberOfMinReplicas = hpa.currentReplicas

\* line 337: the update is skipped when minReplicas would not change
MinReplicasUnchanged(targetNumberOfMinReplicas, hpa) ==
    targetNumberOfMinReplicas = hpa.minReplicas

\* ext is what the outside world does for the calls of this processing:
\* ext.response the Prometheus response, ext.rs the outcome of
\* ListReplicaSets, ext.updateOk whether UpdateHorizontalPodAutoscaler succeeds
makeHorizontalPodAutoscalerChanges(hpa, holder, desiredState, env, ext) ==
    IF ~IsEnabled(desiredState) THEN NoEffect(hpa, holder)
    ELSE
    LET minimumReplicasLowerBound == MinimumReplicasLowerBound(env)
        q == getMinPodCountBasedOnPrometheusQuery(desiredState, ext.response)
        base == [NoEffect(hpa, holder) EXCEPT
                    !.enabled = TRUE,
                    !.lowerBound = minimumReplicasLowerBound,
                    !.queried = q.queried]
    IN
    IF q.panic THEN [base EXCEPT !.status = "panic", !.panic = TRUE]
    ELSE IF q.err THEN [base EXCEPT !.status = "failed", !.err = TRUE]
    ELSE
    LET checking == DeploymentCheckingEnabled(desiredState)
        f == IF checking THEN FetchReplicaSets(holder, ext.rs)
                         ELSE [calls |-> 0, panic |-> FALSE, holder |-> holder]
        fetched == [base EXCEPT
                    !.requestRate = q.requestRate,
                    !.minPodCountBasedOnPrometheusQuery = q.minPodCount,
                    !.rsListCalls = f.calls,
                    !.holder = f.holder]
    IN
    IF f.panic THEN [fetched EXCEPT !.status = "panic", !.panic = TRUE]
    ELSE
    LET deploymentInProgress ==
            checking /\ isDeploymentInProgress(hpa.app, f.holder.list)
        minPodCountBasedOnCurrentPodCount ==
            CurrentPodCountMinimum(deploymentInProgress, q.minPodCount, hpa, desiredState)
        targetNumberOfMinReplicas ==
            ApplyLowerBound(
                LargerMinimum(q.minPodCount, minPodCountBasedOnCurrentPodCount),
                minimumReplicasLowerBound)
        computed == [fetched EXCEPT
                    !.computed = TRUE,
                    !.deploymentInProgress = deploymentInProgress,
                    !.minPodCountBasedOnCurrentPodCount = minPodCountBasedOnCurrentPodCount,
                    !.target = targetNumberOfMinReplicas]
    IN
    IF MinReplicasUnchanged(targetNumberOfMinReplicas, hpa)
        THEN [computed EXCEPT !.status = "skipped"]
    ELSE IF MarshalFails(desiredState)
        THEN [computed EXCEPT !.status = "failed", !.err = TRUE]
    ELSE IF ~ext.updateOk
        THEN [computed EXCEPT !.status = UpdateStatus(ext.updateOk),
                              !.err = UpdateStatus(ext.updateOk) = "failed",
                              !.updateIssued = TRUE,
                              !.submitted = UpdatedObject(hpa, desiredState,
                                                          targetNumberOfMinReplicas)]
    ELSE [computed EXCEPT !.status = UpdateStatus(ext.updateOk),
                          !.err = UpdateStatus(ext.updateOk) = "failed",
                          !.updateIssued = TRUE, !.stored = TRUE,
                          !.submitted = UpdatedObject(hpa, desiredState,
                                                      targetNumberOfMinReplicas)]

processHorizontalPodAutoscaler(hpa, holder, env, ext) ==
    IF hpa.hasAnnotations
        THEN makeHorizontalPodAutoscalerChanges(hpa, holder,
                getDesiredHorizontalPodAutoscalerState(hpa.annotations), env, ext)
        ELSE NoEffect(hpa, holder)

----------------------------------------------------------------------------
(* The inputs the model draws *)

\* the largest status.currentReplicas of the autoscalers of SpecCalc
MaxCurrentReplicas == 8

\* the largest number of replica sets in the cluster of SpecCalc
MaxReplicaSets == 3

Absent == "<absent>"

\* the annotation map with the given values, a key being left out when its
\* value is Absent
Annotations(enabled, query, requestsPerReplica, delta, scaleDownMaxRatio, checking) ==
    LET given == {
            <<annotationHPAScaler, enabled>>,
            <<annotationHPAScalerPrometheusQuery, query>>,
            <<annotationHPAScalerRequestsPerReplica, requestsPerReplica>>,
            <<annotationHPAScalerDelta, delta>>,
            <<annotationHPAScalerScaleDownMaxRatio, scaleDownMaxRatio>>,
            <<annotationHPAScalerEnableScaleDownRatioDeploymentChecking, checking>> }
        present == {p \in given : p[2] # Absent}
    IN  [k \in {p[1] : p \in present} |-> (CHOOSE p \in present : p[1] = k)[2]]

HorizontalPodAutoscaler(name, app, annotations, minReplicas, maxReplicas, currentReplicas) ==
    [ name |-> name, app |-> app,
      hasAnnotations |-> TRUE, annotations |-> annotations,
      stateAnnotation |-> <<>>,
      minReplicas |-> minReplicas, maxReplicas |-> maxReplicas,
      currentReplicas |-> currentReplicas ]

RequestQuery == "sum(rate(nginx_http_requests_total{app='my-app'}[5m])) by (app)"

\* a query whose result the model draws from a wider range (SpecCalc)
RangeQuery == "sum(rate(nginx_http_requests_total[1m]))"

\* a query over a counter whose rate is at the top of the int32 range
HugeQuery == "sum(rate(huge_total[5m]))"

\* the value strings the query endpoint can return for a query
QueryValues(query) ==
    IF query = HugeQuery THEN {"2147483647"}
    ELSE IF query = RangeQuery THEN {"0", "7.5", "10.25", "225.4068", "not-a-float"}
    ELSE {"7.5", "225.4068", "not-a-float"}

\* what the query endpoint can do for one call
Responses(query) ==
    {[kind |-> k, value |-> ""] :
        k \in {"transportError", "readError", "invalidJSON", "emptyResult"}}
    \cup {[kind |-> "value", value |-> v] : v \in QueryValues(query)}

ReplicaSet == [app : {"a", "b"}, replicas : {0, 2}]

\* ListReplicaSets fails
ListFailure == [ok |-> FALSE, list |-> <<>>]

\* what ListReplicaSets can do in SpecCalc: every list of up to MaxReplicaSets
ListOutcomesCalc ==
    {ListFailure} \cup {[ok |-> TRUE, list |-> l] :
                        l \in UNION {[1 .. n -> ReplicaSet] : n \in 0 .. MaxReplicaSets}}

\* what ListReplicaSets can do in Spec: both applications settled, "a" being
\* deployed, "b" being deployed with a replica set that is still empty
ListOutcomes ==
    {ListFailure} \cup {[ok |-> TRUE, list |-> l] : l \in {
        <<[app |-> "a", replicas |-> 2], [app |-> "b", replicas |-> 2]>>,
        <<[app |-> "a", replicas |-> 2], [app |-> "a", replicas |-> 2],
          [app |-> "b", replicas |-> 2]>>,
        <<[app |-> "a", replicas |-> 2], [app |-> "b", replicas |-> 0],
          [app |-> "b", replicas |-> 2], [app |-> "b", replicas |-> 2]>> }}

\* the values of status.currentReplicas the autoscaler controller moves to in Spec
CurrentReplicasValues == {4, 10}

\* the values of MINIMUM_REPLICAS_LOWER_BOUND, "" when it is not set
LowerBoundEnvs == {"", "5", "0", "-2", "0x10", "three", "2147483647"}

(* The clusters of Spec *)

\* the example of the README: a Prometheus query with requests per replica and delta
QueryHpa ==
    HorizontalPodAutoscaler("query", "a",
        Annotations("true", RequestQuery, "2.5", "-0.5", Absent, Absent), 3, 10, 3)

\* the example of the README: a scale down limit
RatioHpa ==
    HorizontalPodAutoscaler("ratio", "a",
        Annotations("true", Absent, Absent, Absent, "0.2", Absent), 3, 10, 4)

\* a scale down limit, with deployment checking
CheckedHpa ==
    HorizontalPodAutoscaler("checked", "a",
        Annotations("true", Absent, Absent, Absent, "0.2", "true"), 3, 10, 4)

\* both approaches, with deployment checking
BothHpa ==
    HorizontalPodAutoscaler("both", "b",
        Annotations("true", RequestQuery, "1", "-4", "0.5", "true"), 1, 4, 4)

\* everything configured, but not enabled
DisabledHpa ==
    HorizontalPodAutoscaler("disabled", "b",
        Annotations("false", RequestQuery, "2.5", "3", "0.2", "true"), 1, 4, 4)

\* a request rate at the top of the int32 range
HugeHpa ==
    HorizontalPodAutoscaler("huge", "b",
        Annotations("true", HugeQuery, Absent, Absent, Absent, Absent), 3, MaxInt32, 4)

\* an autoscaler without any annotation: Metadata.Annotations is nil
BareHpa ==
    [HorizontalPodAutoscaler("bare", "a", <<>>, 1, 4, 4) EXCEPT !.hasAnnotations = FALSE]

\* the clusters Spec starts from, each with a value of MINIMUM_REPLICAS_LOWER_BOUND
InitialConfigurations ==
    { <<<<QueryHpa, RatioHpa>>, "">>, <<<<CheckedHpa, BothHpa>>, "5">>,
      <<<<DisabledHpa, QueryHpa>>, "5">>, <<<<BareHpa, HugeHpa>>, "">>,
      <<<<HugeHpa>>, "2147483647">>, <<<<>>, "">> }

(* The clusters of SpecCalc: one autoscaler each *)

\* a product of annotation values, for the resolution of the desired state
ResolverFamily ==
    { HorizontalPodAutoscaler("resolver", "a", Annotations(e, q, r, d, s, c), 3, 4, 4) :
        e \in {Absent, "true", "false"},
        q \in {Absent, "", RangeQuery},
        r \in {Absent, "2.5", "not-a-number", "NaN"},
        d \in {Absent, "-0.5", "abc"},
        s \in {Absent, "0.2", "seven"},
        c \in {Absent, "true"} }

\* the Prometheus query with a range of requests per replica and delta
MetricFamily ==
    { HorizontalPodAutoscaler("metric", "a",
        Annotations("true", q, r, d, Absent, Absent), 3, 4, 4) :
        q \in {Absent, "", RangeQuery},
        r \in {Absent, "2.5", "0.34", "7", "0", "-1"},
        d \in {Absent, "-0.5", "3", "-4", "10.25"} }

\* the scale down limit with a range of ratios and current replicas
RatioFamily ==
    { HorizontalPodAutoscaler("ratio", "a",
        Annotations("true", Absent, Absent, Absent, s, Absent), 1, 200, n) :
        s \in {Absent, "0", "0.01", "0.2", "0.34", "0.5", "1"},
        n \in (0 .. MaxCurrentReplicas) \cup {100} }

\* deployment checking, with and without the other two approaches
DetectorFamily ==
    { HorizontalPodAutoscaler("detector", app,
        Annotations("true", q, Absent, Absent, s, "true"), 3, 4, 10) :
        app \in {"a", "c"}, q \in {Absent, RangeQuery}, s \in {Absent, "0.2"} }

\* the lower bound with a range of values of the environment variable
LowerBoundFamily ==
    { HorizontalPodAutoscaler("bound", "a",
        Annotations("true", RangeQuery, Absent, d, Absent, Absent), 3, 4, n) :
        d \in {Absent, "-4"}, n \in {0, 4} }

\* numeric annotations that parse to NaN, which the calculation does not read
\* without a query but which are part of the serialized state
SerializationFamily ==
    { HorizontalPodAutoscaler("state", "a",
        Annotations("true", Absent, r, d, Absent, Absent), 3, 4, 4) :
        r \in {"2.5", "NaN"}, d \in {Absent, "NaN"} }

\* the scale down limit alone, for the passes of SpecConverge
ConvergeFamily ==
    { HorizontalPodAutoscaler("converge", "a",
        Annotations("true", Absent, Absent, Absent, s, Absent), m, 10, n) :
        s \in {Absent, "0", "0.2", "0.5", "1"},
        m \in {1, 3, 7},
        n \in {1, 4, MaxCurrentReplicas} }

InitialConfigurationsCalc ==
    {<<<<h>>, "">> : h \in ResolverFamily \cup MetricFamily \cup RatioFamily \cup DetectorFamily}
    \cup {<<<<h>>, e>> : h \in LowerBoundFamily, e \in LowerBoundEnvs}
    \cup {<<<<h>>, "5">> : h \in SerializationFamily}
    \cup {<<<<BareHpa>>, "">>}

----------------------------------------------------------------------------
(* The state machine *)

NoWrite == [valid |-> FALSE, requestRate |-> Rat(0, 1), currentReplicas |-> 0,
            deploymentInProgress |-> FALSE]

\* no update of the autoscaler failed in the last pass
NoFailure == [valid |-> FALSE, object |-> <<>>, requestRate |-> Rat(0, 1),
              deploymentInProgress |-> FALSE, target |-> 0]

\* no query was issued
NoResponse == [kind |-> "none", value |-> ""]

\* what the query endpoint did, as the engine can tell it: the three failures
\* before the decoding of the value are one class
ResponseClass(response) ==
    IF response.kind \in {"transportError", "readError", "invalidJSON"}
        THEN [kind |-> "error", value |-> ""]
        ELSE response

NotProcessed(hpa) ==
    [NoEffect(hpa, NilHolder) EXCEPT !.status = "none"]
        @@ [processed |-> FALSE, counted |-> 0, before |-> hpa,
            previousWrite |-> NoWrite, previousFailure |-> NoFailure,
            response |-> NoResponse, listed |-> "none",
            desiredState |-> getDesiredHorizontalPodAutoscalerState(<<>>)]

\* the poll worker goroutine runs until the process ends
Alive == mainState \in {"running", "draining", "returning"}

InitWith(configurations) ==
    /\ \E c \in configurations : cluster = c[1] /\ lowerBoundEnv = c[2]
    /\ pc = "list"
    /\ hpas = <<>>
    /\ idx = 1
    /\ replicaSets = NilHolder
    /\ rsListCalls = 0
    /\ waitGroup = 0
    /\ mainState = "running"
    /\ trace = [i \in DOMAIN cluster |-> NotProcessed(cluster[i])]
    /\ lastWrite = [i \in DOMAIN cluster |-> NoWrite]
    /\ listErr = FALSE
    /\ sleepTime = 0
    /\ lastFailure = [i \in DOMAIN cluster |-> NoFailure]

Init == InitWith(InitialConfigurations)

\* mutant: after a failed listing the loop lists again at once
ListFailsWithoutSleep ==
    /\ Alive /\ pc = "list"
    /\ pc' = "list"
    /\ hpas' = <<>>
    /\ idx' = 1
    /\ replicaSets' = NilHolder
    /\ rsListCalls' = 0
    /\ listErr' = TRUE
    /\ sleepTime' = 0
    /\ trace' = [i \in DOMAIN cluster |-> NotProcessed(cluster[i])]
    /\ UNCHANGED <<cluster, lowerBoundEnv, waitGroup, mainState, lastWrite, lastFailure>>

\* line 157 fails: nothing is processed in this pass
ListHorizontalPodAutoscalersFails ==
    /\ Alive /\ pc = "list"
    /\ pc' = "sleep"
    /\ hpas' = <<>>
    /\ idx' = 1
    /\ replicaSets' = NilHolder
    /\ rsListCalls' = 0
    /\ listErr' = TRUE
    /\ sleepTime' = 0
    /\ trace' = [i \in DOMAIN cluster |-> NotProcessed(cluster[i])]
    /\ UNCHANGED <<cluster, lowerBoundEnv, waitGroup, mainState, lastWrite, lastFailure>>

\* lines 157-166: the pass starts with the objects of the cluster and a fresh holder
ListHorizontalPodAutoscalers ==
    /\ Alive /\ pc = "list"
    /\ hpas' = cluster
    /\ idx' = 1
    /\ replicaSets' = NilHolder
    /\ rsListCalls' = 0
    /\ listErr' = FALSE
    /\ sleepTime' = 0
    /\ trace' = [i \in DOMAIN cluster |-> NotProcessed(cluster[i])]
    /\ pc' = IF Len(cluster) = 0 THEN "sleep" ELSE "add"
    /\ UNCHANGED <<cluster, lowerBoundEnv, waitGroup, mainState, lastWrite, lastFailure>>

\* line 168
WaitGroupAdd ==
    /\ Alive /\ pc = "add"
    /\ waitGroup' = waitGroup + 1
    /\ pc' = "process"
    /\ UNCHANGED <<cluster, lowerBoundEnv, hpas, idx, replicaSets, rsListCalls,
                   mainState, trace, lastWrite, listErr, sleepTime, lastFailure>>

\* whether the processing of hpa would call ListReplicaSets
WouldListReplicaSets(hpa) ==
    /\ hpa.hasAnnotations
    /\ getDesiredHorizontalPodAutoscalerState(hpa.annotations).Enabled = "true"
    /\ DeploymentCheckingEnabled(getDesiredHorizontalPodAutoscalerState(hpa.annotations))
    /\ ~replicaSets.fetched

\* line 169: processHorizontalPodAutoscaler on hpas.Items[idx], with what the
\* Prometheus server and the API server do for its calls; listOutcomes is what
\* ListReplicaSets can do, and recordFailures whether the specification keeps
\* the history of the updates that failed
ProcessHorizontalPodAutoscaler(listOutcomes, recordFailures) ==
    /\ Alive /\ pc = "process"
    /\ \E response \in Responses(Lookup(hpas[idx].annotations,
                                        annotationHPAScalerPrometheusQuery).val),
          rs \in (IF WouldListReplicaSets(hpas[idx]) THEN listOutcomes ELSE {ListFailure}),
          updateOk \in BOOLEAN :
        LET hpa == hpas[idx]
            r == processHorizontalPodAutoscaler(hpa, replicaSets, lowerBoundEnv,
                    [response |-> response, rs |-> rs, updateOk |-> updateOk])
        IN  /\ trace' = [trace EXCEPT ![idx] =
                    r @@ [processed |-> TRUE, counted |-> 0, before |-> hpa,
                          previousWrite |-> lastWrite[idx],
                          previousFailure |-> lastFailure[idx],
                          response |-> IF r.queried THEN ResponseClass(response)
                                                    ELSE NoResponse,
                          listed |-> IF r.rsListCalls = 0 THEN "none"
                                     ELSE IF rs.ok THEN "ok" ELSE "error",
                          desiredState |->
                            IF hpa.hasAnnotations
                                THEN getDesiredHorizontalPodAutoscalerState(hpa.annotations)
                                ELSE getDesiredHorizontalPodAutoscalerState(<<>>)]]
            /\ rsListCalls' = rsListCalls + r.rsListCalls
            /\ replicaSets' = r.holder
            /\ hpas' = [hpas EXCEPT ![idx] = r.submitted]
            /\ cluster' = IF r.stored THEN [cluster EXCEPT ![idx] = r.submitted]
                                      ELSE cluster
            /\ lastWrite' = IF r.stored
                    THEN [lastWrite EXCEPT ![idx] =
                            [valid |-> TRUE, requestRate |-> r.requestRate,
                             currentReplicas |-> hpa.currentReplicas,
                             deploymentInProgress |-> r.deploymentInProgress]]
                    ELSE lastWrite
            /\ lastFailure' =
                    IF ~recordFailures THEN lastFailure
                    ELSE [lastFailure EXCEPT ![idx] =
                            IF r.updateIssued /\ ~r.stored
                                THEN [valid |-> TRUE, object |-> hpa,
                                      requestRate |-> r.requestRate,
                                      deploymentInProgress |-> r.deploymentInProgress,
                                      target |-> r.target]
                                ELSE NoFailure]
            \* a panic of the poll worker goroutine ends the process
            /\ pc' = IF r.panic THEN "panic" ELSE "done"
            /\ mainState' = IF r.panic THEN "crashed" ELSE mainState
    /\ UNCHANGED <<lowerBoundEnv, idx, waitGroup, listErr, sleepTime>>

\* lines 170-177: the status is counted, the wait group released, and the loop
\* goes to the next autoscaler, or to the sleep after the last one
WaitGroupDone ==
    /\ Alive /\ pc = "done"
    /\ trace' = [trace EXCEPT ![idx].counted = @ + 1]
    /\ waitGroup' = waitGroup - 1
    /\ idx' = idx + 1
    /\ pc' = IF idx < Len(hpas) THEN "add" ELSE "sleep"
    /\ UNCHANGED <<cluster, lowerBoundEnv, hpas, replicaSets, rsListCalls,
                   mainState, lastWrite, listErr, sleepTime, lastFailure>>

\* line 478: int(0.25 * float64(input)), for an input that is not negative
Deviation(input) == (25 * input) \div 100

\* the values r.Intn(n) can return
Intn(n) == 0 .. (n - 1)

\* applyJitter, x being the value r.Intn(2 * deviation) returns
applyJitter(input, x) == input - Deviation(input) + x

\* the values of r.Intn Spec draws: the least and the greatest
JitterDraws == {0, 2 * Deviation(90) - 1}

\* lines 182-184: the worker sleeps applyJitter(90) seconds and the next pass
\* starts; draws are the values of r.Intn the specification draws
Sleep(draws) ==
    /\ Alive /\ pc = "sleep"
    /\ \E x \in Intn(2 * Deviation(90)) \cap draws : sleepTime' = applyJitter(90, x)
    /\ pc' = "list"
    /\ UNCHANGED <<cluster, lowerBoundEnv, hpas, idx, replicaSets, rsListCalls,
                   waitGroup, mainState, trace, lastWrite, listErr, lastFailure>>

\* the autoscaler controller of the cluster scales a workload between two
\* passes (the engine reads status.currentReplicas only when it lists)
ControllerScales ==
    /\ Alive /\ pc = "sleep"
    /\ \E i \in DOMAIN cluster, n \in CurrentReplicasValues :
        /\ cluster[i].currentReplicas # n
        /\ cluster' = [cluster EXCEPT ![i].currentReplicas = n]
    /\ UNCHANGED <<lowerBoundEnv, pc, hpas, idx, replicaSets, rsListCalls,
                   waitGroup, mainState, trace, lastWrite, listErr, sleepTime, lastFailure>>

\* line 188: SIGTERM or SIGINT arrives
SignalReceived ==
    /\ mainState = "running"
    /\ mainState' = "draining"
    /\ UNCHANGED <<cluster, lowerBoundEnv, pc, hpas, idx, replicaSets, rsListCalls,
                   waitGroup, trace, lastWrite, listErr, sleepTime, lastFailure>>

\* line 192: waitGroup.Wait() returns when the counter is zero
WaitGroupWait ==
    /\ mainState = "draining"
    /\ waitGroup = 0
    /\ mainState' = "returning"
    /\ UNCHANGED <<cluster, lowerBoundEnv, pc, hpas, idx, replicaSets, rsListCalls,
                   waitGroup, trace, lastWrite, listErr, sleepTime, lastFailure>>

\* lines 194-195: main returns, which ends the process and the poll worker
Shutdown ==
    /\ mainState = "returning"
    /\ mainState' = "exited"
    /\ UNCHANGED <<cluster, lowerBoundEnv, pc, hpas, idx, replicaSets, rsListCalls,
                   waitGroup, trace, lastWrite, listErr, sleepTime, lastFailure>>

Next ==
    \/ ListHorizontalPodAutoscalersFails
    \/ ListHorizontalPodAutoscalers
    \/ WaitGroupAdd
    \/ ProcessHorizontalPodAutoscaler(ListOutcomes, FALSE)
    \/ WaitGroupDone
    \/ Sleep(JitterDraws)
    \/ ControllerScales
    \/ SignalReceived
    \/ WaitGroupWait
    \/ Shutdown

\* the program, on clusters of two autoscalers
Spec == Init /\ [][Next]_vars

InitCalc == InitWith(InitialConfigurationsCalc)

NextCalc ==
    \/ ListHorizontalPodAutoscalers
    \/ WaitGroupAdd
    \/ ProcessHorizontalPodAutoscaler(
            IF hpas[1].name = "detector" THEN ListOutcomesCalc ELSE ListOutcomes, FALSE)
    \/ WaitGroupDone

\* one pass over a cluster of one autoscaler, its annotations, its replicas and
\* the replica sets of the cluster drawn from ranges of values
SpecCalc == InitCalc /\ [][NextCalc]_vars

InitSleep == InitWith({<<<<QueryHpa>>, "">>})

NextSleep ==
    \/ ListHorizontalPodAutoscalersFails
    \/ ListHorizontalPodAutoscalers
    \/ WaitGroupAdd
    \/ ProcessHorizontalPodAutoscaler(ListOutcomes, FALSE)
    \/ WaitGroupDone
    \/ Sleep(Nat)

\* the passes over the cluster of the README example, with every value r.Intn
\* can return for the sleep between two passes
SpecSleep == InitSleep /\ [][NextSleep]_vars

InitRetry == InitWith({<<<<CheckedHpa, BothHpa>>, "5">>})

NextRetry ==
    \/ ListHorizontalPodAutoscalersFails
    \/ ListHorizontalPodAutoscalers
    \/ WaitGroupAdd
    \/ ProcessHorizontalPodAutoscaler(ListOutcomes, TRUE)
    \/ WaitGroupDone
    \/ Sleep(JitterDraws)

\* the passes of the poll worker over a cluster of two autoscalers with
\* deployment checking, with the history of the updates that failed
SpecRetry == InitRetry /\ [][NextRetry]_vars

InitConverge == InitWith({<<<<h>>, e>> : h \in ConvergeFamily, e \in {"", "5", "0"}})

\* every workload runs the minimum number of replicas of its autoscaler
Settled == \A i \in DOMAIN cluster : cluster[i].currentReplicas = cluster[i].minReplicas

\* the autoscaler controller of the cluster scales a workload down (or up) to
\* spec.minReplicas between two passes
ControllerScalesToMinimum ==
    /\ Alive /\ pc = "sleep"
    /\ \E i \in DOMAIN cluster :
        /\ cluster[i].currentReplicas # cluster[i].minReplicas
        /\ cluster' = [cluster EXCEPT ![i].currentReplicas = cluster[i].minReplicas]
    /\ UNCHANGED <<lowerBoundEnv, pc, hpas, idx, replicaSets, rsListCalls,
                   waitGroup, mainState, trace, lastWrite, listErr, sleepTime,
                   lastFailure>>

\* the sleep ends once the workloads have followed their autoscalers
SleepWhenSettled == Settled /\ Sleep(JitterDraws)

\* the processing of hpas.Items[idx] returns without an error
ProcessingSucceeds ==
    ProcessHorizontalPodAutoscaler(ListOutcomes, FALSE) /\ ~trace'[idx].err

NextConverge ==
    \/ ListHorizontalPodAutoscalersFails
    \/ ListHorizontalPodAutoscalers
    \/ WaitGroupAdd
    \/ ProcessHorizontalPodAutoscaler(ListOutcomes, FALSE)
    \/ WaitGroupDone
    \/ ControllerScalesToMinimum
    \/ SleepWhenSettled

\* the poll worker runs on, and neither the listing nor the update fails for ever
FairConverge ==
    /\ SF_vars(ListHorizontalPodAutoscalers)
    /\ WF_vars(WaitGroupAdd)
    /\ SF_vars(ProcessingSucceeds)
    /\ WF_vars(WaitGroupDone)
    /\ WF_vars(ControllerScalesToMinimum)
    /\ WF_vars(SleepWhenSettled)

\* the passes over one autoscaler with a scale down limit whose workload
\* follows spec.minReplicas between two passes, under fair scheduling
SpecConverge == InitConverge /\ [][NextConverge]_vars /\ FairConverge

----------------------------------------------------------------------------
(* Properties *)

\* the autoscalers the pass in flight has processed
Processed == {i \in DOMAIN trace : trace[i].processed}

\* the greater of two integers
Max(a, b) == IF a >= b THEN a ELSE b

\* the hard lower bound a value of MINIMUM_REPLICAS_LOWER_BOUND configures:
\* the integer it denotes, 3 when it is not set or no integer
HardLowerBound ==
    CASE lowerBoundEnv = "5"          -> 5
      [] lowerBoundEnv = "0"          -> 0
      [] lowerBoundEnv = "-2"         -> -2
      [] lowerBoundEnv = "0x10"       -> 16
      [] lowerBoundEnv = "2147483647" -> MaxInt32
      [] OTHER                        -> 3

\* C1: every autoscaler object submitted in an update call has
\* minReplicas < maxReplicas, for every int32 value of the target and of the
\* prior maxReplicas.
C1_SubmittedMinBelowMax ==
    \A i \in Processed :
        trace[i].updateIssued =>
            trace[i].submitted.minReplicas < trace[i].submitted.maxReplicas

\* C2: the computed target minReplicas of an enabled autoscaler, and so every
\* minReplicas the engine submits, is at least the hard lower bound, whatever
\* the two floors are.
C2_TargetAtLeastLowerBound ==
    \A i \in Processed :
        /\ trace[i].computed => trace[i].target >= HardLowerBound
        /\ trace[i].updateIssued => trace[i].submitted.minReplicas >= HardLowerBound

\* C2 witness: both floors are below the hard lower bound (one of them
\* negative) and the bound is what is submitted.
C2_Witness ==
    \E i \in Processed :
        /\ trace[i].updateIssued
        /\ trace[i].minPodCountBasedOnPrometheusQuery < 0
        /\ trace[i].minPodCountBasedOnCurrentPodCount < HardLowerBound
        /\ trace[i].submitted.minReplicas = HardLowerBound

\* whether the resolved state asks for the metric floor
MetricConfigured(ds) ==
    /\ ds.PrometheusQuery # ""
    /\ ~ds.RequestsPerReplica.nan
    /\ ds.RequestsPerReplica.n > 0

\* f = ceil(delta + rate / requestsPerReplica), as f - 1 < delta + rate / rpr <= f
\* over the common denominator delta.d * rate.d * rpr.n
IsCeilOfMetric(f, delta, rate, rpr) ==
    LET num == delta.n * rate.d * rpr.n + rate.n * rpr.d * delta.d
        den == delta.d * rate.d * rpr.n
    IN  (f - 1) * den < num /\ num <= f * den

\* C3: with a non-empty query and requestsPerReplica > 0 the metric floor is
\* ceil(delta + requestRate / requestsPerReplica); otherwise no query is issued
\* and the metric floor is 0.
C3_MetricFloor ==
    \A i \in Processed :
        LET t == trace[i]
            ds == t.desiredState
        IN  /\ (t.computed /\ MetricConfigured(ds)) =>
                    /\ t.queried
                    /\ IsCeilOfMetric(t.minPodCountBasedOnPrometheusQuery,
                                      ds.Delta, t.requestRate, ds.RequestsPerReplica)
            /\ (t.enabled /\ ~MetricConfigured(ds)) =>
                    /\ ~t.queried
                    /\ t.minPodCountBasedOnPrometheusQuery = 0

\* C3 witness: delta = -0.5, rate = 225.4068, requestsPerReplica = 2.5 give 90.
C3_Witness ==
    \E i \in Processed :
        /\ trace[i].computed /\ trace[i].queried
        /\ trace[i].desiredState.Delta = Rat(-1, 2)
        /\ trace[i].desiredState.RequestsPerReplica = Rat(5, 2)
        /\ trace[i].requestRate = Rat(563517, 2500)
        /\ trace[i].minPodCountBasedOnPrometheusQuery = 90

\* m = floor(currentReplicas * ratio), as m <= currentReplicas * ratio < m + 1
IsFloorOfScaleDown(m, currentReplicas, ratio) ==
    m * ratio.d <= currentReplicas * ratio.n /\ currentReplicas * ratio.n < (m + 1) * ratio.d

RatioInUnitInterval(ratio) == ~ratio.nan /\ 0 <= ratio.n /\ ratio.n <= ratio.d

\* C4: for a scaleDownMaxRatio in [0,1] the ratio floor is
\* currentReplicas - floor(currentReplicas * scaleDownMaxRatio), and
\* currentReplicas - 1 when that floor is 0.
C4_RatioFloor ==
    \A i \in Processed :
        LET t == trace[i]
            n == t.before.currentReplicas
            ratio == t.desiredState.ScaleDownMaxRatio
        IN  (t.computed /\ ~t.deploymentInProgress /\ RatioInUnitInterval(ratio)) =>
                \E m \in 0 .. n :
                    /\ IsFloorOfScaleDown(m, n, ratio)
                    /\ t.minPodCountBasedOnCurrentPodCount = (IF m = 0 THEN n - 1 ELSE n - m)

\* C4 witness: 100 replicas and a ratio of 0.2 give 80.
C4_Witness ==
    \E i \in Processed :
        /\ trace[i].computed
        /\ trace[i].before.currentReplicas = 100
        /\ trace[i].desiredState.ScaleDownMaxRatio = Rat(1, 5)
        /\ trace[i].minPodCountBasedOnCurrentPodCount = 80

\* C4, second example: 2 replicas and a ratio of 0.01 give 1.
C4_WitnessZeroFloor ==
    \E i \in Processed :
        /\ trace[i].computed
        /\ trace[i].before.currentReplicas = 2
        /\ trace[i].desiredState.ScaleDownMaxRatio = Rat(1, 100)
        /\ trace[i].minPodCountBasedOnCurrentPodCount = 1

\* C5: without a deployment in progress the target is
\* max(max(metricFloor, ratioFloor), hardLowerBound), the hard lower bound being
\* the configured integer, or 3 when none is configured or it does not parse.
C5_TargetIsLargestFloor ==
    \A i \in Processed :
        LET t == trace[i]
        IN  (t.computed /\ ~t.deploymentInProgress) =>
                t.target = Max(Max(t.minPodCountBasedOnPrometheusQuery,
                                   t.minPodCountBasedOnCurrentPodCount),
                               HardLowerBound)

\* C5 witness: the query and the ratio are both configured, the ratio floor is
\* the larger one and above the hard lower bound, and it is the target.
C5_Witness ==
    \E i \in Processed :
        /\ trace[i].computed /\ trace[i].queried /\ ~trace[i].deploymentInProgress
        /\ annotationHPAScalerScaleDownMaxRatio \in DOMAIN trace[i].before.annotations
        /\ trace[i].minPodCountBasedOnCurrentPodCount
                > trace[i].minPodCountBasedOnPrometheusQuery
        /\ trace[i].minPodCountBasedOnCurrentPodCount > HardLowerBound
        /\ trace[i].target = trace[i].minPodCountBasedOnCurrentPodCount

\* C5, the unparseable lower bound: 3 is used.
C5_WitnessUnparseable ==
    \E i \in Processed :
        /\ lowerBoundEnv = "three"
        /\ trace[i].computed /\ trace[i].target = 3
        /\ trace[i].minPodCountBasedOnPrometheusQuery < 3
        /\ trace[i].minPodCountBasedOnCurrentPodCount < 3

\* a target equal to the current minReplicas issues no update and is "skipped"
SkippedWhenUnchanged(i) ==
    (trace[i].computed /\ trace[i].target = trace[i].before.minReplicas) =>
        (~trace[i].updateIssued /\ trace[i].status = "skipped")

\* the request rate and currentReplicas are those of the last successful update
SameRateAndReplicas(i) ==
    /\ trace[i].previousWrite.valid
    /\ trace[i].requestRate = trace[i].previousWrite.requestRate
    /\ trace[i].before.currentReplicas = trace[i].previousWrite.currentReplicas

\* C6 as stated: a target equal to the current minReplicas is skipped without
\* an update call, and after a successful write a further pass with the same
\* annotations, request rate and currentReplicas issues no second write.
C6_NoSecondWrite ==
    \A i \in Processed :
        /\ SkippedWhenUnchanged(i)
        /\ SameRateAndReplicas(i) => ~trace[i].updateIssued

\* C6 amended: ... a further pass with the same annotations, request rate,
\* currentReplicas and the same outcome of the deployment check issues no
\* second write.
C6_NoSecondWriteSameDeployment ==
    \A i \in Processed :
        /\ SkippedWhenUnchanged(i)
        /\ ( /\ SameRateAndReplicas(i)
             /\ trace[i].computed
             /\ trace[i].deploymentInProgress = trace[i].previousWrite.deploymentInProgress )
           => ~trace[i].updateIssued

\* C6 witness: after a successful write the autoscaler is processed again with
\* the same inputs, and skipped.
C6_Witness ==
    \E i \in Processed :
        /\ SameRateAndReplicas(i)
        /\ trace[i].computed /\ trace[i].queried
        /\ trace[i].deploymentInProgress = trace[i].previousWrite.deploymentInProgress
        /\ trace[i].status = "skipped"
        /\ ~trace[i].updateIssued

\* the enable annotation is absent or "false"
NotEnabledByAnnotation(hpa) ==
    \/ ~hpa.hasAnnotations
    \/ annotationHPAScaler \notin DOMAIN hpa.annotations
    \/ hpa.annotations[annotationHPAScaler] = "false"

\* C7: an autoscaler whose enable annotation is absent or "false" is "skipped"
\* without a metric query, a replica set listing or a cluster write.
C7_DisabledIsSkipped ==
    \A i \in Processed :
        NotEnabledByAnnotation(trace[i].before) =>
            /\ trace[i].status = "skipped"
            /\ ~trace[i].queried
            /\ trace[i].rsListCalls = 0
            /\ ~trace[i].updateIssued /\ ~trace[i].stored
            /\ trace[i].submitted = trace[i].before
            /\ hpas[i] = trace[i].before

\* C7 witness: "false", with a query, a ratio and deployment checking configured.
C7_Witness ==
    \E i \in Processed :
        /\ trace[i].before.hasAnnotations
        /\ annotationHPAScaler \in DOMAIN trace[i].before.annotations
        /\ trace[i].before.annotations[annotationHPAScaler] = "false"
        /\ trace[i].desiredState.PrometheusQuery # ""
        /\ RatPositive(trace[i].desiredState.RequestsPerReplica)
        /\ trace[i].desiredState.EnableScaleDownRatioDeploymentChecking = "true"
        /\ trace[i].status = "skipped"

\* C8: with deployment checking enabled and a deployment in progress the ratio
\* floor is not computed, the metric floor (0 without a query) stands in its
\* place, and the target is max(metricFloor, hardLowerBound).
C8_DeploymentSuppressesRatioFloor ==
    \A i \in Processed :
        LET t == trace[i]
        IN  (t.computed /\ t.deploymentInProgress) =>
                /\ t.desiredState.EnableScaleDownRatioDeploymentChecking = "true"
                /\ t.minPodCountBasedOnCurrentPodCount = t.minPodCountBasedOnPrometheusQuery
                /\ ~t.queried => t.minPodCountBasedOnPrometheusQuery = 0
                /\ t.target = Max(t.minPodCountBasedOnPrometheusQuery, HardLowerBound)

\* C8 witness: 10 replicas with a ratio of 0.2, whose ratio floor would be 8,
\* get the hard lower bound during a deployment.
C8_Witness ==
    \E i \in Processed :
        /\ trace[i].computed /\ trace[i].deploymentInProgress
        /\ trace[i].before.currentReplicas = 10
        /\ trace[i].desiredState.ScaleDownMaxRatio = Rat(1, 5)
        /\ trace[i].target = HardLowerBound
        /\ trace[i].target < 8

\* strictly more than one replica set of the snapshot carries the label of
\* the autoscaler and reports replicas
TwoNonEmptyReplicaSets(app) ==
    \E j, k \in DOMAIN replicaSets.list :
        /\ j # k
        /\ replicaSets.list[j].app = app /\ replicaSets.list[j].replicas > 0
        /\ replicaSets.list[k].app = app /\ replicaSets.list[k].replicas > 0

\* C9: the detector returns true iff strictly more than one replica set with
\* the label of the autoscaler reports replicas > 0.
C9_DetectorIff ==
    \A i \in Processed :
        LET t == trace[i]
        IN  (t.computed /\ t.desiredState.EnableScaleDownRatioDeploymentChecking = "true") =>
                /\ replicaSets.fetched
                /\ t.deploymentInProgress <=> TwoNonEmptyReplicaSets(t.before.app)

\* C9 witness: a deployment is detected in a snapshot that also holds a
\* replica set of another application.
C9_Witness ==
    \E i \in Processed :
        /\ trace[i].computed /\ trace[i].deploymentInProgress
        /\ Len(replicaSets.list) = 3
        /\ \E k \in DOMAIN replicaSets.list :
                replicaSets.list[k].app # trace[i].before.app

\* C9, the other direction: one non-empty replica set of the application,
\* an empty one and one of another application are no deployment.
C9_WitnessNotInProgress ==
    \E i \in Processed :
        /\ trace[i].computed /\ ~trace[i].deploymentInProgress
        /\ trace[i].desiredState.EnableScaleDownRatioDeploymentChecking = "true"
        /\ \E j, k, l \in DOMAIN replicaSets.list :
            /\ replicaSets.list[j] = [app |-> trace[i].before.app, replicas |-> 2]
            /\ replicaSets.list[k] = [app |-> trace[i].before.app, replicas |-> 0]
            /\ replicaSets.list[l].app # trace[i].before.app
            /\ replicaSets.list[l].replicas > 0

\* the value a numeric annotation resolves to
ResolvedNumber(annotations, key, default) ==
    IF key \in DOMAIN annotations /\ ParseFloat(annotations[key]).ok
        THEN ParseFloat(annotations[key]).val
        ELSE default

\* the value a string annotation resolves to
ResolvedString(annotations, key, default) ==
    IF key \in DOMAIN annotations THEN annotations[key] ELSE default

\* C10: every field of the desired state is resolved from its own annotation
\* alone; a numeric annotation that is absent or no number takes its default
\* (1, 0 and 1).
C10_ResolverDefaults ==
    \A i \in Processed :
        LET a == trace[i].before.annotations
            ds == trace[i].desiredState
        IN  trace[i].before.hasAnnotations =>
            /\ ds.RequestsPerReplica =
                ResolvedNumber(a, annotationHPAScalerRequestsPerReplica, Rat(1, 1))
            /\ ds.Delta = ResolvedNumber(a, annotationHPAScalerDelta, Rat(0, 1))
            /\ ds.ScaleDownMaxRatio =
                ResolvedNumber(a, annotationHPAScalerScaleDownMaxRatio, Rat(1, 1))
            /\ ds.Enabled = ResolvedString(a, annotationHPAScaler, "false")
            /\ ds.PrometheusQuery = ResolvedString(a, annotationHPAScalerPrometheusQuery, "")
            /\ ds.PrometheusServerURL =
                ResolvedString(a, annotationHPAScalerPrometheusServerURL,
                               PrometheusServerURLEnv)
            /\ ds.EnableScaleDownRatioDeploymentChecking =
                ResolvedString(a, annotationHPAScalerEnableScaleDownRatioDeploymentChecking,
                               "false")

\* C10 witness: requests-per-replica "not-a-number" resolves to 1 while the
\* delta and the ratio next to it resolve to their own values.
C10_Witness ==
    \E i \in Processed :
        LET a == trace[i].before.annotations
            ds == trace[i].desiredState
        IN  /\ trace[i].before.hasAnnotations
            /\ annotationHPAScalerRequestsPerReplica \in DOMAIN a
            /\ a[annotationHPAScalerRequestsPerReplica] = "not-a-number"
            /\ ds.RequestsPerReplica = Rat(1, 1)
            /\ ds.Delta = Rat(-1, 2)
            /\ ds.ScaleDownMaxRatio = Rat(1, 5)

----------------------------------------------------------------------------
(* Failures and scheduling *)

\* the query of autoscaler i was issued and failed with an error: the call,
\* the read of the body or the decoding failed, or the value is no float
QueryFailed(i) ==
    \/ trace[i].response.kind = "error"
    \/ trace[i].response.kind = "value" /\ trace[i].response.value = "not-a-float"

\* the fields of an autoscaler object the engine writes
Written(hpa) == <<hpa.minReplicas, hpa.maxReplicas, hpa.stateAnnotation>>

\* the step of the loop after the processing of hpas.Items[idx]: the next
\* autoscaler of the list, or the sleep after the last one
LoopGoesOn ==
    (pc' # pc) => /\ idx' = idx + 1
                  /\ pc' = IF idx < Len(hpas) THEN "add" ELSE "sleep"

C12_EmptyResultIsAnError ==
    \A i \in Processed :
        (trace[i].response.kind = "emptyResult" \/ QueryFailed(i)) =>
            /\ trace[i].status = "failed"
            /\ ~trace[i].panic
            /\ mainState # "crashed"
            /\ pc # "panic"

\* C13: in one pass ListReplicaSets is called at most once, whether it fails
\* or not, and the autoscalers processed after the call read the list it
\* returned.
C13_ReplicaSetsFetchedOnce ==
    /\ rsListCalls <= 1
    /\ Cardinality({i \in Processed : trace[i].listed # "none"}) <= 1
    /\ \A i \in Processed : trace[i].rsListCalls <= 1
    /\ \A i \in Processed, j \in Processed :
        (i < j /\ trace[i].holder.fetched) =>
            /\ trace[j].listed = "none"
            /\ trace[j].holder = trace[i].holder
            /\ replicaSets = trace[i].holder

\* C13 witness: two autoscalers with deployment checking in one pass, the
\* first one fetched the list and the second one used it.
C13_Witness ==
    \E i \in Processed, j \in Processed :
        /\ i < j
        /\ trace[i].listed = "ok" /\ trace[i].computed
        /\ trace[j].desiredState.EnableScaleDownRatioDeploymentChecking = "true"
        /\ trace[j].computed /\ trace[j].deploymentInProgress
        /\ trace[j].listed = "none"
        /\ rsListCalls = 1

\* the autoscaler is enabled and asks for deployment checking
OptedIn(hpa) ==
    /\ hpa.hasAnnotations
    /\ annotationHPAScaler \in DOMAIN hpa.annotations
    /\ hpa.annotations[annotationHPAScaler] = "true"
    /\ annotationHPAScalerEnableScaleDownRatioDeploymentChecking \in DOMAIN hpa.annotations
    /\ hpa.annotations[annotationHPAScalerEnableScaleDownRatioDeploymentChecking] = "true"

\* C14: ListReplicaSets is called only by the processing of an enabled
\* autoscaler with deployment checking "true" whose query did not fail; in a
\* pass without such an autoscaler it is not called.
C14_FetchedOnlyWhenOptedIn ==
    /\ \A i \in Processed :
        trace[i].listed # "none" => (OptedIn(trace[i].before) /\ ~QueryFailed(i))
    /\ rsListCalls > 0 => \E i \in Processed : trace[i].listed # "none"
    /\ (\A i \in DOMAIN hpas : ~OptedIn(hpas[i])) => (rsListCalls = 0 /\ ~replicaSets.fetched)

\* C14 witness: a pass over two autoscalers ended without a call, one of them
\* asking for deployment checking without being enabled, the other enabled
\* without asking for it.
C14_Witness ==
    /\ pc = "sleep" /\ Len(hpas) = 2 /\ Processed = DOMAIN hpas
    /\ rsListCalls = 0
    /\ \E i \in Processed, j \in Processed :
        /\ trace[i].desiredState.EnableScaleDownRatioDeploymentChecking = "true"
        /\ ~OptedIn(trace[i].before)
        /\ trace[j].computed /\ ~OptedIn(trace[j].before)

\* the update of autoscaler i was issued and failed
UpdateFailed(i) == trace[i].updateIssued /\ ~trace[i].stored

\* autoscaler i is processed with the object, the request rate and the
\* deployment state its update failed with in the last pass
SameAsFailed(i) ==
    /\ trace[i].previousFailure.valid
    /\ trace[i].before = trace[i].previousFailure.object
    /\ trace[i].computed
    /\ trace[i].requestRate = trace[i].previousFailure.requestRate
    /\ trace[i].deploymentInProgress = trace[i].previousFailure.deploymentInProgress

\* C15: a failed update gives the autoscaler status "failed" and leaves the
\* cluster as it was; the update is not issued again in the pass and the loop
\* goes on; in the next pass, on the same object with the same request rate
\* and deployment state, the same target is computed and the update issued.
C15_FailedUpdateIsRetriedNextPass ==
    /\ [](\A i \in Processed :
            /\ UpdateFailed(i) =>
                /\ trace[i].status = "failed"
                /\ Written(cluster[i]) = Written(trace[i].before)
                /\ lastWrite[i] = trace[i].previousWrite
            /\ SameAsFailed(i) =>
                /\ trace[i].target = trace[i].previousFailure.target
                /\ trace[i].updateIssued)
    /\ [][\A i \in Processed :
            trace'[i].processed =>
                /\ trace'[i].updateIssued = trace[i].updateIssued
                /\ trace'[i].submitted = trace[i].submitted]_vars
    /\ [][(pc = "done" /\ UpdateFailed(idx)) => LoopGoesOn]_vars

\* C15 witness: the update of the first autoscaler failed in the last pass and
\* succeeds in this one with the same target, and the second autoscaler was
\* processed after the failure.
C15_Witness ==
    \E i \in Processed, j \in Processed :
        /\ i < j
        /\ SameAsFailed(i)
        /\ trace[i].status = "succeeded"
        /\ trace[i].target = trace[i].previousFailure.target
        /\ trace[j].previousFailure.valid

\* C16: a failure of ListReplicaSets skips the deployment check only: the
\* autoscaler is processed down to its target, the process does not end and
\* the pass goes on.
C16_ListFailureSkipsOnlyTheCheck ==
    \A i \in Processed :
        trace[i].listed = "error" =>
            /\ ~trace[i].panic
            /\ trace[i].computed
            /\ mainState # "crashed"

\* sleepTime lies within 25% of the base of 90
WithinJitter(t) == 4 * t >= 3 * 90 /\ 4 * t <= 5 * 90

\* C17: when the listing of the autoscalers fails nothing is processed or
\* written in that pass, the worker sleeps the jittered interval and lists
\* again, and the pass of a listing that succeeds then starts from the
\* objects of the cluster.
C17_ListFailureSkipsThePass ==
    /\ [](listErr =>
            /\ Processed = {} /\ hpas = <<>>
            /\ rsListCalls = 0 /\ waitGroup = 0
            /\ pc \in {"sleep", "list"}
            /\ pc = "list" => WithinJitter(sleepTime))
    /\ [][(listErr /\ listErr') =>
            /\ lastWrite' = lastWrite
            /\ \A i \in DOMAIN cluster : Written(cluster'[i]) = Written(cluster[i])]_vars
    /\ [][(listErr /\ pc = "sleep" /\ pc' # pc) => pc' = "list"]_vars
    /\ [][(listErr /\ pc = "list" /\ ~listErr') =>
            /\ hpas' = cluster
            /\ \A i \in DOMAIN cluster : ~trace'[i].processed
            /\ pc' = IF Len(cluster) = 0 THEN "sleep" ELSE "add"]_vars

\* C17 witness: the listing failed in a cluster of two autoscalers, the worker
\* has slept and is about to list again.
C17_Witness ==
    /\ listErr /\ pc = "list"
    /\ Len(cluster) = 2
    /\ WithinJitter(sleepTime)
    /\ mainState = "running"

\* C18: the process does not exit between waitGroup.Add(1) and
\* waitGroup.Done(), that is while an autoscaler is being processed.
C18_NoExitWhileInFlight ==
    mainState = "exited" => (waitGroup = 0 /\ pc \notin {"process", "done"})

\* C19: when the process exits after a signal every autoscaler of the list of
\* the pass in flight has been processed and counted.
C19_InFlightPassCompletes ==
    mainState = "exited" =>
        \A i \in DOMAIN hpas : trace[i].processed /\ trace[i].counted = 1

\* C20: every sleepTime lies within [0.75 * 90, 1.25 * 90], and the sleep can
\* draw the lowest integer of that range, 68, and the highest, 112.
C20_JitterIsSymmetric ==
    /\ sleepTime # 0 => WithinJitter(sleepTime)
    /\ pc = "sleep" =>
        /\ ENABLED (Sleep(Nat) /\ sleepTime' = 68)
        /\ ENABLED (Sleep(Nat) /\ sleepTime' = 112)

----------------------------------------------------------------------------
(* What a write changes, the scale down limit and the statuses *)

\* the fields of an autoscaler object the engine leaves alone: the name, the
\* labels, the annotations other than the state annotation, and the status
Kept(hpa) == <<hpa.name, hpa.app, hpa.hasAnnotations, hpa.annotations, hpa.currentReplicas>>

\* C21: the object handed to the update differs from the listed one in
\* minReplicas, maxReplicas and the state annotation (the desired state with
\* lastUpdated) only, nothing else of the cluster object changes, and no
\* autoscaler object is created or deleted.
C21_WriteChangesThreeFields ==
    /\ [](\A i \in Processed :
            /\ Kept(trace[i].submitted) = Kept(trace[i].before)
            /\ Kept(cluster[i]) = Kept(trace[i].before)
            /\ trace[i].updateIssued =>
                /\ Len(trace[i].submitted.stateAnnotation) = 1
                /\ trace[i].submitted.stateAnnotation[1].LastUpdated # ""
                /\ [trace[i].submitted.stateAnnotation[1] EXCEPT !.LastUpdated = ""]
                        = trace[i].desiredState
            /\ ~trace[i].updateIssued => trace[i].submitted = trace[i].before
            /\ cluster[i] = (IF trace[i].stored THEN trace[i].submitted ELSE trace[i].before))
    /\ [][/\ DOMAIN cluster' = DOMAIN cluster
          /\ \A i \in DOMAIN cluster : Kept(cluster'[i]) = Kept(cluster[i])]_vars

\* C21 witness: a stored update that changed minReplicas and maxReplicas of an
\* autoscaler with annotations.
C21_Witness ==
    \E i \in Processed :
        /\ trace[i].stored /\ cluster[i] = trace[i].submitted
        /\ DOMAIN trace[i].before.annotations # {}
        /\ trace[i].submitted.minReplicas # trace[i].before.minReplicas
        /\ trace[i].submitted.maxReplicas # trace[i].before.maxReplicas
        /\ trace[i].before.stateAnnotation = <<>>

\* the ratio floor was computed for autoscaler i from at least one replica
\* and a ratio in [0,1]
RatioFloorComputed(i) ==
    /\ trace[i].computed /\ ~trace[i].deploymentInProgress
    /\ RatioInUnitInterval(trace[i].desiredState.ScaleDownMaxRatio)
    /\ trace[i].before.currentReplicas >= 1

\* C22 as stated: scaleDownMaxRatio is the part of currentReplicas that
\* remains (the ratio floor is currentReplicas * ratio, rounded up or down),
\* and with the ratio 1 the target is max(metricFloor, hardLowerBound).
C22_RatioIsWhatRemains ==
    \A i \in Processed :
        LET t == trace[i]
            n == t.before.currentReplicas
            ratio == t.desiredState.ScaleDownMaxRatio
            floor == t.minPodCountBasedOnCurrentPodCount
        IN  RatioFloorComputed(i) =>
                /\ (floor - 1) * ratio.d < n * ratio.n
                /\ n * ratio.n < (floor + 1) * ratio.d
                /\ ratio = Rat(1, 1) =>
                    t.target = Max(t.minPodCountBasedOnPrometheusQuery, HardLowerBound)

\* C22 amended: scaleDownMaxRatio is the part of currentReplicas that may be
\* removed in one step (one replica at least), and with the ratio 1 the ratio
\* floor is 0, so that the target is max(metricFloor, 0, hardLowerBound).
C22_RatioIsWhatIsRemoved ==
    \A i \in Processed :
        LET t == trace[i]
            n == t.before.currentReplicas
            ratio == t.desiredState.ScaleDownMaxRatio
            removed == n - t.minPodCountBasedOnCurrentPodCount
        IN  RatioFloorComputed(i) =>
                /\ removed >= 1
                /\ removed = 1 \/ removed * ratio.d <= n * ratio.n
                /\ n * ratio.n < (removed + 1) * ratio.d
                /\ ratio = Rat(1, 1) =>
                    /\ removed = n
                    /\ t.target = Max(Max(t.minPodCountBasedOnPrometheusQuery, 0),
                                      HardLowerBound)

\* C22 witness: with a ratio of 0.2, 20 of 100 replicas may be removed.
C22_Witness ==
    \E i \in Processed :
        /\ RatioFloorComputed(i)
        /\ trace[i].desiredState.ScaleDownMaxRatio = Rat(1, 5)
        /\ trace[i].before.currentReplicas = 100
        /\ trace[i].before.currentReplicas - trace[i].minPodCountBasedOnCurrentPodCount = 20

\* C23: for currentReplicas >= 1 and a ratio in [0,1] the ratio floor lies in
\* 0 .. currentReplicas - 1.
C23_RatioFloorLeavesRoom ==
    \A i \in Processed :
        RatioFloorComputed(i) =>
            /\ 0 <= trace[i].minPodCountBasedOnCurrentPodCount
            /\ trace[i].minPodCountBasedOnCurrentPodCount <= trace[i].before.currentReplicas - 1

\* C23 witness: a ratio of 0, which lets floor(currentReplicas * ratio) be 0,
\* gives currentReplicas - 1.
C23_Witness ==
    \E i \in Processed :
        /\ RatioFloorComputed(i)
        /\ trace[i].desiredState.ScaleDownMaxRatio = Rat(0, 1)
        /\ trace[i].before.currentReplicas > 1
        /\ trace[i].minPodCountBasedOnCurrentPodCount = trace[i].before.currentReplicas - 1

\* autoscaler i has no query and is processed with a workload that runs
\* spec.minReplicas replicas
FollowsMinimum(i) ==
    /\ trace[i].computed /\ ~trace[i].queried /\ ~trace[i].deploymentInProgress
    /\ RatioInUnitInterval(trace[i].desiredState.ScaleDownMaxRatio)
    /\ trace[i].before.currentReplicas = trace[i].before.minReplicas

HasNaN(ds) == ds.RequestsPerReplica.nan \/ ds.Delta.nan \/ ds.ScaleDownMaxRatio.nan

====
